---- MODULE Spec2Model ----
(***************************************************************************)
(* Order Barcode App (src/main.js): the order-fulfilment screens, the      *)
(* camera scanner glue, the CSV import and the localStorage persistence.   *)
(*                                                                         *)
(* JavaScript values are modelled as follows.  Strings are TLA+ strings;   *)
(* null, undefined and the empty string are all falsy and the code only    *)
(* ever tests them for truthiness, so a missing cell / missing storage     *)
(* entry is the empty string "", and a null field of the state object is   *)
(* the reserved string NULL.  An Order object is a record; the descriptive *)
(* fields customer/project/supplyDate, which no transition reads, are left *)
(* out.  state.currentOrder is a reference: it either points at the i-th   *)
(* element of state.db.orders or at an object that is no longer part of    *)
(* state.db (the database was replaced after the order was selected).      *)
(***************************************************************************)
EXTENDS Integers, Sequences, FiniteSets, TLC

\* ------------------------------------------------------------------ bounds
\* most callbacks ever registered with Quagga.onDetected in one page life
MaxHandlers == 2
\* most rows of a parsed CSV file in the import check
MaxRows == 3

\* ------------------------------------------------------------- JS helpers
NULL == "<null>"

\* String.prototype.trim on the strings the model uses
Trim(s) ==
  CASE s = " "        -> ""
    [] s = "  "       -> ""
    [] s = " Dana "   -> "Dana"
    [] s = " A"       -> "A"
    [] s = " PART001 " -> "PART001"
    [] OTHER          -> s

\* Array.prototype.includes
Includes(seq, x) == \E i \in 1..Len(seq) : seq[i] = x

\* Array.prototype.find over state.db.orders by orderId: the index of the
\* first match, 0 when there is none
FindOrder(orders, orderId) ==
  IF \E i \in 1..Len(orders) : orders[i].orderId = orderId
  THEN CHOOSE i \in 1..Len(orders) :
         /\ orders[i].orderId = orderId
         /\ \A j \in 1..(i - 1) : orders[j].orderId # orderId
  ELSE 0

\* ------------------------------------------------------------ the database
NewOrder(orderId, parts) ==
  [orderId |-> orderId, parts |-> parts, status |-> "Pending",
   packedAt |-> NULL, packedBy |-> NULL]

\* the built-in sample database
SampleDb ==
  [orders |-> << NewOrder("ORDER001", <<"PART001", "PART002", "PART003">>) >>]

EmptyDb == [orders |-> << >>]

\* ----------------------------------------------- JSON.stringify / JSON.parse
\* The stored text is a sequence of tokens.  A string value is written as
\* the quote token "$" followed by its characters; null is the bare token
\* "null"; objects and arrays are bracketed.
StrNullable(v) == IF v = NULL THEN <<"null">> ELSE <<"$", v>>

RECURSIVE StrParts(_)
StrParts(parts) ==
  IF parts = << >> THEN << >>
  ELSE <<"$", Head(parts)>> \o StrParts(Tail(parts))

\* an order written with packedBy always null
StrOrder_NoPackedBy(o) ==
  <<"{", "orderId", "$", o.orderId, "parts", "[">> \o StrParts(o.parts)
    \o <<"]", "status", "$", o.status, "packedAt">> \o StrNullable(o.packedAt)
    \o <<"packedBy", "null", "}">>

StrOrder(o) ==
  <<"{", "orderId", "$", o.orderId, "parts", "[">> \o StrParts(o.parts)
    \o <<"]", "status", "$", o.status, "packedAt">> \o StrNullable(o.packedAt)
    \o <<"packedBy">> \o StrNullable(o.packedBy) \o <<"}">>

RECURSIVE StrOrders(_)
StrOrders(orders) ==
  IF orders = << >> THEN << >>
  ELSE StrOrder(Head(orders)) \o StrOrders(Tail(orders))

JSONStringify(d) == <<"{", "orders", "[">> \o StrOrders(d.orders) \o <<"]", "}">>

Tok(t, i) == IF i >= 1 /\ i <= Len(t) THEN t[i] ELSE "<eof>"

ParseFail == [ok |-> FALSE, val |-> << >>, next |-> 0]

\* a nullable string at position i
ParseNullable(t, i) ==
  IF Tok(t, i) = "null" THEN [ok |-> TRUE, val |-> NULL, next |-> i + 1]
  ELSE IF Tok(t, i) = "$" /\ i + 1 <= Len(t)
       THEN [ok |-> TRUE, val |-> t[i + 1], next |-> i + 2]
       ELSE [ok |-> FALSE, val |-> NULL, next |-> 0]

\* the strings of an array, up to and including its closing bracket
RECURSIVE ParseParts(_, _, _)
ParseParts(t, i, acc) ==
  IF Tok(t, i) = "]" THEN [ok |-> TRUE, val |-> acc, next |-> i + 1]
  ELSE IF Tok(t, i) = "$" /\ i + 1 <= Len(t)
       THEN ParseParts(t, i + 2, Append(acc, t[i + 1]))
       ELSE ParseFail

\* one order object starting at position i: its fields in the order
\* JSON.stringify writes them
ParseOrderEnd(t, i, ps, at, by) ==
  IF ~by.ok \/ Tok(t, by.next) # "}" THEN ParseFail
  ELSE [ok |-> TRUE,
        val |-> [orderId |-> t[i + 3], parts |-> ps.val,
                 status |-> t[ps.next + 2], packedAt |-> at.val,
                 packedBy |-> by.val],
        next |-> by.next + 1]

ParseOrderPackedBy(t, i, ps, at) ==
  IF ~at.ok \/ Tok(t, at.next) # "packedBy" THEN ParseFail
  ELSE ParseOrderEnd(t, i, ps, at, ParseNullable(t, at.next + 1))

ParseOrderStatus(t, i, ps) ==
  IF ~ps.ok THEN ParseFail
  ELSE IF ~(/\ Tok(t, ps.next) = "status" /\ Tok(t, ps.next + 1) = "$"
            /\ ps.next + 2 <= Len(t) /\ Tok(t, ps.next + 3) = "packedAt")
       THEN ParseFail
       ELSE ParseOrderPackedBy(t, i, ps, ParseNullable(t, ps.next + 4))

ParseOrder(t, i) ==
  IF ~(/\ Tok(t, i) = "{" /\ Tok(t, i + 1) = "orderId" /\ Tok(t, i + 2) = "$"
       /\ i + 3 <= Len(t) /\ Tok(t, i + 4) = "parts" /\ Tok(t, i + 5) = "[")
  THEN ParseFail
  ELSE ParseOrderStatus(t, i, ParseParts(t, i + 6, << >>))

\* the orders of the array, up to and including its closing bracket
RECURSIVE ParseOrders(_, _, _)
ParseOrdersNext(t, acc, o) ==
  IF ~o.ok THEN ParseFail
  ELSE ParseOrders(t, o.next, Append(acc, o.val))

ParseOrders(t, i, acc) ==
  IF Tok(t, i) = "]" THEN [ok |-> TRUE, val |-> acc, next |-> i + 1]
  ELSE ParseOrdersNext(t, acc, ParseOrder(t, i))

JSONParseEnd(t, os) ==
  IF os.ok /\ Tok(t, os.next) = "}" /\ os.next = Len(t)
  THEN [ok |-> TRUE, val |-> [orders |-> os.val]]
  ELSE [ok |-> FALSE, val |-> EmptyDb]

\* JSON.parse: ok = FALSE stands for the SyntaxError it throws
JSONParse(t) ==
  IF ~(Tok(t, 1) = "{" /\ Tok(t, 2) = "orders" /\ Tok(t, 3) = "[")
  THEN [ok |-> FALSE, val |-> EmptyDb]
  ELSE JSONParseEnd(t, ParseOrders(t, 4, << >>))

\* a stored entry that is not valid JSON (a truncated write)
CorruptText == <<"{", "orders", "[", "{", "orderId">>

\* ------------------------------------------------------------ CSV import
\* A parsed file is [header, rows]: header is the sequence of column names
\* (the keys of every row object, in column order) and a row is the sequence
\* of its cells, one per column.

\* the column names of the model whose lower case includes one of the
\* order patterns / one of the part patterns
OrderPatterns == {"Order", "order_id", "Part Order"}
PartPatterns  == {"Part", "part_id", "Part Order"}

\* findKey(patterns): the index of the first matching column, 0 for
\* undefined; matching is the set of column names the patterns match
FindKeyIdx(keys, matching) ==
  IF \E j \in 1..Len(keys) : keys[j] \in matching
  THEN CHOOSE j \in 1..Len(keys) :
         keys[j] \in matching /\ \A h \in 1..(j - 1) : keys[h] \notin matching
  ELSE 0

\* row[key]: undefined (falsy, here "") when the key is undefined
RowGet(row, j) == IF j >= 1 /\ j <= Len(row) THEN row[j] ELSE ""

\* the order id and part id of one row: the lookup, the fallback to the
\* first and second column, and the trimming
RowOrderId(row, orderKey, partKey) ==
  LET orderId == RowGet(row, orderKey)
      partUid == RowGet(row, partKey)
      fb      == IF (orderId = "" \/ partUid = "") /\ orderId = "" /\ Len(row) >= 1
                 THEN row[1] ELSE orderId
  IN Trim(fb)

RowPartUid(row, orderKey, partKey) ==
  LET orderId == RowGet(row, orderKey)
      partUid == RowGet(row, partKey)
      fb      == IF (orderId = "" \/ partUid = "") /\ partUid = "" /\ Len(row) >= 2
                 THEN row[2] ELSE partUid
  IN Trim(fb)

\* ordersMap is a plain object: reading a key it does not own finds the
\* property Object.prototype has under that name
InheritedKey(k) == k \in {"constructor", "toString", "valueOf", "hasOwnProperty", "__proto__"}

\* the keys of ordersMap that are array indices, with their value (-1: none)
ArrayIndex(k) ==
  CASE k = "2"  -> 2
    [] k = "10" -> 10
    [] OTHER    -> -1

\* ordersMap after one more row; own holds the objects created so far in
\* creation order; threw: the TypeError of .parts.push on an inherited key
ForEachRow(acc, row, orderKey, partKey) ==
  LET orderId == RowOrderId(row, orderKey, partKey)
      partUid == RowPartUid(row, orderKey, partKey)
      at      == FindOrder(acc.own, orderId)
  IN IF acc.threw \/ orderId = "" \/ partUid = "" THEN acc
     ELSE IF at # 0
          THEN [acc EXCEPT !.own[at].parts = Append(@, partUid)]
          ELSE IF InheritedKey(orderId) THEN [acc EXCEPT !.threw = TRUE]
               ELSE [acc EXCEPT !.own = Append(@, NewOrder(orderId, <<partUid>>))]

RECURSIVE ForEach(_, _, _, _)
ForEach(acc, rows, orderKey, partKey) ==
  IF rows = << >> THEN acc
  ELSE ForEach(ForEachRow(acc, Head(rows), orderKey, partKey), Tail(rows),
               orderKey, partKey)

\* the objects of own whose key is an array index, by ascending index
RECURSIVE IndexOrdered(_)
IndexOrdered(own) ==
  LET idx == {i \in 1..Len(own) : ArrayIndex(own[i].orderId) >= 0} IN
  IF idx = {} THEN << >>
  ELSE LET m == CHOOSE i \in idx :
                  \A j \in idx : ArrayIndex(own[i].orderId) <= ArrayIndex(own[j].orderId)
       IN <<own[m]>> \o IndexOrdered(SubSeq(own, 1, m - 1) \o SubSeq(own, m + 1, Len(own)))

\* Object.values: array-index keys first, ascending, then the other keys in
\* creation order
ObjectValues(own) ==
  IndexOrdered(own) \o SelectSeq(own, LAMBDA o : ArrayIndex(o.orderId) < 0)

\* the complete callback up to "const orders = ...": [threw, orders]
Normalize(header, rows) ==
  LET orderKey == FindKeyIdx(header, OrderPatterns)
      partKey  == FindKeyIdx(header, PartPatterns)
      acc      == ForEach([threw |-> FALSE, own |-> << >>], rows, orderKey, partKey)
  IN [threw |-> acc.threw, orders |-> ObjectValues(acc.own)]

\* ------------------------------------------------------- the application
VARIABLES
  user,            \* state.user
  db,              \* state.db
  currentOrder,    \* state.currentOrder: a reference, see CurrentOrderObj
  scannedParts,    \* state.scannedParts
  screen,          \* the screen last rendered into #app
  markDisabled,    \* the disabled attribute of #markPackedBtn
  quaggaActive,    \* the module-level flag of startScanner / stopScanner
  handlers,        \* the callbacks registered with Quagga.onDetected
  dispatch,        \* detection being published: the callbacks still to be
                   \* called, as indices into handlers
  storedDb,        \* localStorage['barcodeAppDb']
  storedUser,      \* localStorage['barcodeAppUser']
  pending,         \* files handed to Papa.parse whose callback has not run
  cameraAvail,     \* navigator.mediaDevices && typeof Quagga !== 'undefined'
  last,            \* the handler that ran last, its input, its alerts, and
                   \* whether it called startScanner on an active scanner
  csvHeader,       \* import check: the column names of the file
  csvRows          \* import check: the rows of the file

vars == <<user, db, currentOrder, scannedParts, screen, markDisabled,
          quaggaActive, handlers, dispatch, storedDb, storedUser, pending,
          cameraAvail, last, csvHeader, csvRows>>

\* the application state as one value, so that a handler is a function of it
St ==
  [user |-> user, db |-> db, currentOrder |-> currentOrder,
   scannedParts |-> scannedParts, screen |-> screen,
   markDisabled |-> markDisabled, quaggaActive |-> quaggaActive,
   handlers |-> handlers, dispatch |-> dispatch, storedDb |-> storedDb,
   storedUser |-> storedUser, pending |-> pending,
   cameraAvail |-> cameraAvail, last |-> last]

\* ------------------------------------------------------------ model inputs
\* what the user can type into the name field
Names == {"", " ", "Dana", " Dana "}
\* what can be typed into a code field or decoded by the camera
Codes == {"", "ORDER001", "A", "PART001", " PART001 ", "PART002", "PART003", "P1"}
\* the value of new Date().toISOString()
Timestamps == {"2026-01-01T00:00:00.000Z"}
\* the files the user can pick on the import screen
\* A twice with the same part, and ORDER001 with one part
FileMixed == [header |-> <<"Order", "Part">>,
              rows |-> << <<"ORDER001", "PART001">>, <<"A", "P1">>, <<"A", "P1">> >>]
\* an order id that is the name of a property of Object.prototype
FileThrow == [header |-> <<"Order", "Part">>, rows |-> << <<"constructor", "P1">> >>]
Files == {FileMixed, FileThrow}

\* ---------------------------------------------------------------- helpers
NoOrder == NewOrder("", << >>)
NoRef == [kind |-> "none", idx |-> 0, obj |-> NoOrder]

\* the object state.currentOrder points at
CurrentOrderObj(s) ==
  IF s.currentOrder.kind = "db" THEN s.db.orders[s.currentOrder.idx]
  ELSE s.currentOrder.obj

\* state.db = <a new object>: an order selected before keeps its object,
\* which is no longer an element of state.db.orders
AssignDb(s, newDb) ==
  [s EXCEPT !.db = newDb,
            !.currentOrder =
               IF s.currentOrder.kind = "db"
               THEN [kind |-> "detached", idx |-> 0, obj |-> CurrentOrderObj(s)]
               ELSE @]

alert(s, msg) == [s EXCEPT !.last.alerts = Append(@, msg)]

\* the handler op starts running on input arg
Begin(op, arg) ==
  [St EXCEPT !.last = [op |-> op, arg |-> arg, alerts |-> << >>, whileActive |-> FALSE]]

clearApp(s) == [s EXCEPT !.markDisabled = FALSE]

saveDatabase(s) == [s EXCEPT !.storedDb = JSONStringify(s.db)]

\* state.db = JSON.parse(dbStr) inside try / catch
loadParsed(s, r) == IF r.ok THEN [s EXCEPT !.db = r.val] ELSE [s EXCEPT !.db = EmptyDb]

loadDatabase(s) ==
  IF s.storedDb # << >> THEN loadParsed(s, JSONParse(s.storedDb))
  ELSE saveDatabase([s EXCEPT !.db = SampleDb])

\* ---------------------------------------------------------------- scanner
startScanner(s, onDetected) ==
  IF ~s.cameraAvail THEN s
  ELSE [s EXCEPT !.quaggaActive = TRUE, !.handlers = Append(@, onDetected),
                 !.last.whileActive = @ \/ s.quaggaActive]

stopScanner(s) == [s EXCEPT !.quaggaActive = FALSE]

\* ---------------------------------------------------------------- screens
showLogin(s) == [clearApp(s) EXCEPT !.screen = "Login"]

showHome(s) == [clearApp(s) EXCEPT !.screen = "Home"]

showImport(s) == [clearApp(s) EXCEPT !.screen = "Import"]

showDatabase(s) == [clearApp(s) EXCEPT !.screen = "Database"]

showOrderScan(s) == startScanner([clearApp(s) EXCEPT !.screen = "OrderScan"], "order")

showPartScan(s) == startScanner([clearApp(s) EXCEPT !.screen = "PartScan"], "part")

\* currentOrder.parts.filter(p => !scannedParts.includes(p))
Missing(s) ==
  SelectSeq(CurrentOrderObj(s).parts, LAMBDA p : ~Includes(s.scannedParts, p))

showSummary(s) ==
  [clearApp(s) EXCEPT !.screen = "Summary", !.markDisabled = (Len(Missing(s)) # 0)]

\* --------------------------------------------------------------- handlers
\* handleOrderDetected without its status check
handleOrderDetected_NoPackedCheck(s, orderId) ==
  LET i == FindOrder(s.db.orders, orderId) IN
  IF i = 0 THEN showOrderScan(alert(s, "OrderNotFound"))
  ELSE showPartScan([s EXCEPT !.currentOrder = [kind |-> "db", idx |-> i, obj |-> NoOrder],
                              !.scannedParts = << >>])

\* handleOrderDetected emptying the scanned parts before the lookup
handleOrderDetected_ResetFirst(s, orderId) ==
  LET i == FindOrder(s.db.orders, orderId)
      r == [s EXCEPT !.scannedParts = << >>]
  IN IF i = 0 THEN showOrderScan(alert(r, "OrderNotFound"))
     ELSE IF s.db.orders[i].status = "Packed"
          THEN showOrderScan(alert(r, "OrderAlreadyPacked"))
          ELSE showPartScan([r EXCEPT !.currentOrder = [kind |-> "db", idx |-> i, obj |-> NoOrder]])

handleOrderDetected(s, orderId) ==
  LET i == FindOrder(s.db.orders, orderId) IN
  IF i = 0 THEN showOrderScan(alert(s, "OrderNotFound"))
  ELSE IF s.db.orders[i].status = "Packed"
       THEN showOrderScan(alert(s, "OrderAlreadyPacked"))
       ELSE showPartScan([s EXCEPT !.currentOrder = [kind |-> "db", idx |-> i, obj |-> NoOrder],
                                   !.scannedParts = << >>])

\* handlePartDetected without its duplicate check
handlePartDetected_NoDuplicateCheck(s, code) ==
  LET partId == Trim(code) IN
  IF partId = "" THEN s
  ELSE IF ~Includes(CurrentOrderObj(s).parts, partId) THEN alert(s, "PartNotInOrder")
  ELSE LET t == [s EXCEPT !.scannedParts = Append(@, partId)] IN
       IF Len(t.scannedParts) = Len(CurrentOrderObj(t).parts)
       THEN showSummary(stopScanner(t))
       ELSE t

handlePartDetected(s, code) ==
  LET partId == Trim(code) IN
  IF partId = "" THEN s
  ELSE IF Includes(s.scannedParts, partId) THEN alert(s, "DuplicatePart")
  ELSE IF ~Includes(CurrentOrderObj(s).parts, partId) THEN alert(s, "PartNotInOrder")
  ELSE LET t == [s EXCEPT !.scannedParts = Append(@, partId)] IN
       IF Len(t.scannedParts) = Len(CurrentOrderObj(t).parts)
       THEN showSummary(stopScanner(t))
       ELSE t

\* the click handler of #markPackedBtn without the packedBy assignment
markPacked_NoPackedBy(s, now) ==
  LET o == [CurrentOrderObj(s) EXCEPT !.status = "Packed", !.packedAt = now]
      t == IF s.currentOrder.kind = "db"
           THEN [s EXCEPT !.db.orders[s.currentOrder.idx] = o]
           ELSE [s EXCEPT !.currentOrder.obj = o]
  IN showHome(alert(saveDatabase(t), "PackOk"))

\* the click handler of #markPackedBtn
markPacked(s, now) ==
  LET o == [CurrentOrderObj(s) EXCEPT !.status = "Packed", !.packedAt = now,
                                      !.packedBy = s.user]
      t == IF s.currentOrder.kind = "db"
           THEN [s EXCEPT !.db.orders[s.currentOrder.idx] = o]
           ELSE [s EXCEPT !.currentOrder.obj = o]
  IN showHome(alert(saveDatabase(t), "PackOk"))

\* the callback without its quaggaActive guard
onDetectedCallback_NoActiveGuard(s, onDetected, code) ==
  IF code = "" THEN s
  ELSE LET t == [s EXCEPT !.quaggaActive = FALSE] IN
       IF onDetected = "order" THEN handleOrderDetected(t, code)
       ELSE handlePartDetected(t, code)

\* the function Quagga.onDetected was given, called with a decoded result
onDetectedCallback(s, onDetected, code) ==
  IF ~s.quaggaActive THEN s
  ELSE IF code = "" THEN s
  ELSE LET t == [s EXCEPT !.quaggaActive = FALSE] IN
       IF onDetected = "order" THEN handleOrderDetected(t, code)
       ELSE handlePartDetected(t, code)

\* the complete callback of Papa.parse, from "state.db = { orders }" on
importDone(s, r) ==
  IF r.threw THEN s
  ELSE showHome(alert(saveDatabase(AssignDb(s, [orders |-> r.orders])), "ImportOk"))

\* the complete callback of Papa.parse
importComplete(s, file) == importDone(s, Normalize(file.header, file.rows))

\* init(), from "const savedUser" on
initUser(t) ==
  IF t.storedUser # "" THEN showHome([t EXCEPT !.user = t.storedUser])
  ELSE showLogin(t)

\* init(), on a freshly loaded page
init(s) == initUser(loadDatabase(s))

\* the page just loaded: the script's globals at their initial values
FreshPage(sdb, suser, cam) ==
  [user |-> NULL, db |-> EmptyDb, currentOrder |-> NoRef, scannedParts |-> << >>,
   screen |-> "Login", markDisabled |-> FALSE, quaggaActive |-> FALSE,
   handlers |-> << >>, dispatch |-> << >>, storedDb |-> sdb, storedUser |-> suser,
   pending |-> << >>, cameraAvail |-> cam,
   last |-> [op |-> "init", arg |-> "", alerts |-> << >>, whileActive |-> FALSE]]

\* ------------------------------------------------------------ transitions
\* the next state is s; csv* belong to the import check
Apply(s) ==
  /\ user' = s.user
  /\ db' = s.db
  /\ currentOrder' = s.currentOrder
  /\ scannedParts' = s.scannedParts
  /\ screen' = s.screen
  /\ markDisabled' = s.markDisabled
  /\ quaggaActive' = s.quaggaActive
  /\ handlers' = s.handlers
  /\ dispatch' = s.dispatch
  /\ storedDb' = s.storedDb
  /\ storedUser' = s.storedUser
  /\ pending' = s.pending
  /\ cameraAvail' = s.cameraAvail
  /\ last' = s.last
  /\ UNCHANGED <<csvHeader, csvRows>>

\* a user event is handled only between two events, never inside the
\* publication of a detection
Idle == dispatch = << >>

\* room for one more Quagga.onDetected registration
Room == Len(handlers) < MaxHandlers

\* #loginBtn
Login(name) ==
  /\ Idle /\ screen = "Login"
  /\ LET s == Begin("login", name)
         username == Trim(name)
     IN IF username = "" THEN Apply(alert(s, "ValidationError"))
        ELSE Apply(showHome([s EXCEPT !.user = username, !.storedUser = username]))

\* #logoutBtn calling localStorage.clear() instead of removeItem
Logout_ClearsStorage ==
  /\ Idle /\ screen = "Home"
  /\ Apply(showLogin([Begin("logout", "") EXCEPT !.user = NULL, !.storedUser = "",
                                                  !.storedDb = << >>]))

\* #logoutBtn
Logout ==
  /\ Idle /\ screen = "Home"
  /\ Apply(showLogin([Begin("logout", "") EXCEPT !.user = NULL, !.storedUser = ""]))

\* #scanOrderBtn
ScanOrderBtn ==
  /\ Idle /\ screen = "Home" /\ Room
  /\ Apply(showOrderScan(Begin("scanOrderBtn", "")))

\* #importBtn
ImportBtn ==
  /\ Idle /\ screen = "Home"
  /\ Apply(showImport(Begin("importBtn", "")))

\* #dbBtn
DbBtn ==
  /\ Idle /\ screen = "Home"
  /\ Apply(showDatabase(Begin("dbBtn", "")))

\* #backFromDbBtn
BackFromDb ==
  /\ Idle /\ screen = "Database"
  /\ Apply(showHome(Begin("backFromDbBtn", "")))

\* #backHomeBtn
BackHome ==
  /\ Idle /\ screen = "Import"
  /\ Apply(showHome(Begin("backHomeBtn", "")))

\* #loadSampleBtn
LoadSample ==
  /\ Idle /\ screen = "Import"
  /\ Apply(showHome(alert(saveDatabase(AssignDb(Begin("loadSample", ""), SampleDb)),
                          "SampleLoaded")))

\* #csvInput change: the file goes to Papa.parse, which reads it
\* asynchronously; one parse is in flight at a time
CsvChange(file) ==
  /\ Idle /\ screen = "Import" /\ pending = << >>
  /\ Apply([Begin("csvChange", "") EXCEPT !.pending = <<file>>])

\* Papa.parse calls complete
ImportComplete ==
  /\ Idle /\ pending # << >>
  /\ Apply(importComplete([Begin("importComplete", "") EXCEPT !.pending = << >>],
                          Head(pending)))

\* Papa.parse calls error
ImportError ==
  /\ Idle /\ pending # << >>
  /\ Apply(alert([Begin("importError", "") EXCEPT !.pending = << >>], "ImportParseError"))

\* #manualOrderBtn
ManualOrder(code) ==
  /\ Idle /\ screen = "OrderScan" /\ Room
  /\ LET s == Begin("manualOrder", code)
         val == Trim(code)
     IN IF val = "" THEN Apply(alert(s, "ValidationError"))
        ELSE Apply(handleOrderDetected(stopScanner(s), val))

\* #cancelBtn
CancelOrder ==
  /\ Idle /\ screen = "OrderScan"
  /\ Apply(showHome(stopScanner(Begin("cancelOrder", ""))))

\* #manualPartBtn
ManualPart(code) ==
  /\ Idle /\ screen = "PartScan"
  /\ LET s == Begin("manualPart", code)
         val == Trim(code)
     IN IF val = "" THEN Apply(alert(s, "ValidationError"))
        ELSE Apply(handlePartDetected(s, val))

\* #cancelPartsBtn
CancelParts ==
  /\ Idle /\ screen = "PartScan" /\ Room
  /\ Apply(showOrderScan(stopScanner(Begin("cancelParts", ""))))

\* #backBtn
BackBtn ==
  /\ Idle /\ screen = "Summary"
  /\ Apply(showHome(Begin("backBtn", "")))

\* #markPackedBtn, which a disabled button does not deliver
MarkPacked(now) ==
  /\ Idle /\ screen = "Summary" /\ ~markDisabled
  /\ Apply(markPacked(Begin("markPacked", ""), now))

\* Quagga publishes a detection: every callback registered so far will be
\* called with it, in registration order
Detect(code) ==
  /\ Idle /\ handlers # << >> /\ Len(handlers) <= MaxHandlers
  /\ Apply([Begin("detect", code) EXCEPT !.dispatch = [i \in 1..Len(handlers) |-> i]])

\* the next registered callback is called with the published result
Callback ==
  /\ dispatch # << >>
  /\ LET onDetected == handlers[Head(dispatch)]
         s == [Begin(onDetected, last.arg) EXCEPT !.dispatch = Tail(dispatch)]
     IN Apply(onDetectedCallback(s, onDetected, last.arg))

\* the page is loaded again: DOMContentLoaded runs init on fresh globals
Reload ==
  /\ Idle
  /\ Apply(init(FreshPage(storedDb, storedUser, cameraAvail)))

Init ==
  /\ \E sdb \in {<< >>, CorruptText}, su \in {"", "Dana"}, cam \in BOOLEAN :
     \E s \in {init(FreshPage(sdb, su, cam))} :
       /\ user = s.user /\ db = s.db /\ currentOrder = s.currentOrder
       /\ scannedParts = s.scannedParts /\ screen = s.screen
       /\ markDisabled = s.markDisabled /\ quaggaActive = s.quaggaActive
       /\ handlers = s.handlers /\ dispatch = s.dispatch
       /\ storedDb = s.storedDb /\ storedUser = s.storedUser
       /\ pending = s.pending /\ cameraAvail = s.cameraAvail /\ last = s.last
  /\ csvHeader = << >>
  /\ csvRows = << >>

Next ==
  \/ \E name \in Names : Login(name)
  \/ Logout
  \/ ScanOrderBtn
  \/ ImportBtn
  \/ DbBtn
  \/ BackFromDb
  \/ BackHome
  \/ LoadSample
  \/ \E file \in Files : CsvChange(file)
  \/ ImportComplete
  \/ ImportError
  \/ \E code \in Codes : ManualOrder(code)
  \/ CancelOrder
  \/ \E code \in Codes : ManualPart(code)
  \/ CancelParts
  \/ BackBtn
  \/ \E now \in Timestamps : MarkPacked(now)
  \/ \E code \in Codes : Detect(code)
  \/ Callback
  \/ Reload

Spec == Init /\ [][Next]_vars

\* ------------------------------------------------------- the import check
\* The complete callback as a function of the parsed file: the file is put
\* together row by row, picked on the import screen and parsed.
Headers ==
  { <<"Order", "Part">>, <<"Name", "Order", "Part">>, <<"Id", "Item">>,
    <<"Part", "Order">> }
OrderCells == {"", " ", "A", " A", "10", "2", "constructor"}
PartCells  == {"", "P1", "P2"}
NameCells  == {"Bob"}

\* the rows a file with this header can hold, each cell in its column's set
RowsOf(header) ==
  IF header = <<"Name", "Order", "Part">>
    THEN {<<n, o, p>> : n \in NameCells, o \in OrderCells, p \in PartCells}
  ELSE IF header = <<"Part", "Order">>
    THEN {<<p, o>> : p \in PartCells, o \in OrderCells}
  ELSE {<<o, p>> : o \in OrderCells, p \in PartCells}

\* one more row in the file the user is about to pick
AddRow(row) ==
  /\ screen = "Home" /\ last.op = "init" /\ Len(csvRows) < MaxRows
  /\ csvRows' = Append(csvRows, row)
  /\ UNCHANGED <<user, db, currentOrder, scannedParts, screen, markDisabled,
                 quaggaActive, handlers, dispatch, storedDb, storedUser,
                 pending, cameraAvail, last, csvHeader>>

InitImport ==
  /\ \E s \in {init(FreshPage(<< >>, "Dana", FALSE))} :
       /\ user = s.user /\ db = s.db /\ currentOrder = s.currentOrder
       /\ scannedParts = s.scannedParts /\ screen = s.screen
       /\ markDisabled = s.markDisabled /\ quaggaActive = s.quaggaActive
       /\ handlers = s.handlers /\ dispatch = s.dispatch
       /\ storedDb = s.storedDb /\ storedUser = s.storedUser
       /\ pending = s.pending /\ cameraAvail = s.cameraAvail /\ last = s.last
  /\ csvHeader \in Headers
  /\ csvRows = << >>

NextImport ==
  \/ \E row \in RowsOf(csvHeader) : AddRow(row)
  \/ ImportBtn
  \/ CsvChange([header |-> csvHeader, rows |-> csvRows])
  \/ ImportComplete

SpecImport == InitImport /\ [][NextImport]_vars

\* ------------------------------------------------------------- properties
\* the handler a step ran and the input it ran on
Ran(op) == last'.op = op
Arg == last'.arg

\* handleOrderDetected runs in this step on this order id
OrderSubmitted(orderId) ==
  \/ Ran("manualOrder") /\ Trim(Arg) # "" /\ orderId = Trim(Arg)
  \/ Ran("order") /\ quaggaActive /\ Arg # "" /\ orderId = Arg

\* handlePartDetected runs in this step on this (trimmed, non-empty) part id
PartSubmitted(partId) ==
  /\ Trim(Arg) # "" /\ partId = Trim(Arg)
  /\ \/ Ran("manualPart")
     \/ Ran("part") /\ quaggaActive /\ Arg # ""

Range(seq) == {seq[i] : i \in 1..Len(seq)}
CurrentParts == CurrentOrderObj(St).parts
MissingParts == Missing(St)
Distinct(seq) == Cardinality(Range(seq))

IsPacked(orders, orderId) ==
  \E i \in 1..Len(orders) : orders[i].orderId = orderId /\ orders[i].status = "Packed"

OrderIds == {"ORDER001", "A"}

\* C1: whenever a part code is accepted, the screen is Summary with nothing
\* missing exactly if the accepted codes now number the distinct
\* identifiers of the order's part list
C1_SummaryExactlyAtNthDistinct ==
  [][ Len(scannedParts') = Len(scannedParts) + 1
        => ( (screen' = "Summary" /\ MissingParts' = << >>)
               <=> Len(scannedParts') = Distinct(CurrentParts') ) ]_vars

\* C2: the mark-packed handler runs only with every part of the current
\* order scanned, and leaves the current order Packed, stamped, and packed by
\* the session user
C2_CommitOnlyWhenComplete ==
  [][ Ran("markPacked")
        => /\ Range(CurrentParts) \subseteq Range(scannedParts)
           /\ CurrentOrderObj(St)'.status = "Packed"
           /\ CurrentOrderObj(St)'.packedAt \in Timestamps
           /\ CurrentOrderObj(St)'.packedBy = user' ]_vars

C2_Witness ==
  /\ last.op = "markPacked"
  /\ CurrentOrderObj(St).status = "Packed"
  /\ CurrentOrderObj(St).packedBy = "Dana"

\* C3 as claimed: an order id that is Packed in the database is Packed in
\* the database after every step
C3_PackedForever ==
  [][ \A id \in OrderIds : IsPacked(db.orders, id) => IsPacked(db'.orders, id) ]_vars

\* C3 as amended: an order id that is Packed stays Packed over every step
\* that does not replace the database (a finished import, the sample), and
\* submitting it as an order code is refused as OrderAlreadyPacked, with the
\* machine in SelectingOrder and the scan progress untouched
C3_PackedUntilReplaced ==
  [][ \A id \in OrderIds :
        IsPacked(db.orders, id)
          => /\ (~Ran("loadSample") /\ ~Ran("importComplete")) => IsPacked(db'.orders, id)
             /\ OrderSubmitted(id)
                  => /\ last'.alerts = <<"OrderAlreadyPacked">>
                     /\ screen' = "OrderScan"
                     /\ UNCHANGED <<db, currentOrder, scannedParts>> ]_vars

C3_Witness ==
  /\ last.op = "manualOrder"
  /\ last.alerts = <<"OrderAlreadyPacked">>
  /\ IsPacked(db.orders, Trim(last.arg))

\* C4: when the mark-packed handler has acknowledged, the stored database
\* text parses to a database that holds the order just committed, Packed
C4_CommittedPackIsStored ==
  last.op = "markPacked"
    => LET r == JSONParse(storedDb) IN
       /\ r.ok
       /\ \E i \in 1..Len(r.val.orders) :
            /\ r.val.orders[i].orderId = CurrentOrderObj(St).orderId
            /\ r.val.orders[i].status = "Packed"

\* C5: a part code that is already scanned, or is not a part of the current
\* order, is refused and changes neither the scanned parts, the current
\* order, the database nor the screen
C5_RejectedPartChangesNothing ==
  [][ \A p \in {Trim(c) : c \in Codes} :
        PartSubmitted(p)
          => /\ Includes(scannedParts, p)
                 => last'.alerts = <<"DuplicatePart">>
                    /\ UNCHANGED <<scannedParts, currentOrder, db, storedDb, screen>>
             /\ (~Includes(scannedParts, p) /\ ~Includes(CurrentParts, p))
                 => last'.alerts = <<"PartNotInOrder">>
                    /\ UNCHANGED <<scannedParts, currentOrder, db, storedDb, screen>> ]_vars

C5_Witness ==
  /\ last.op = "manualPart"
  /\ last.alerts = <<"DuplicatePart">>
  /\ screen = "PartScan"
  /\ Includes(scannedParts, Trim(last.arg))

\* C6: an order code that matches no orderId of the database is refused as
\* OrderNotFound, with the machine in SelectingOrder and the current order,
\* the scanned parts and the database as they were
C6_UnknownOrderChangesNothing ==
  [][ \A c \in {Trim(x) : x \in Codes} \cup Codes :
        (OrderSubmitted(c) /\ FindOrder(db.orders, c) = 0)
          => /\ last'.alerts = <<"OrderNotFound">>
             /\ screen' = "OrderScan"
             /\ UNCHANGED <<currentOrder, scannedParts, db, storedDb>> ]_vars

C6_Witness ==
  /\ last.op = "manualOrder"
  /\ last.alerts = <<"OrderNotFound">>
  /\ scannedParts # << >>
  /\ screen = "OrderScan"

\* C7: a login with a name that is not empty after trimming shows Home
\* with the user set and stored; a logout clears the user in memory and in
\* the store, shows the login screen, and leaves the database and its
\* stored text as they were
C7_LoginThenLogout ==
  [][ /\ (Ran("login") /\ Trim(Arg) # "")
          => (screen' = "Home" /\ user' = Trim(Arg) /\ storedUser' = Trim(Arg))
      /\ Ran("logout")
          => /\ user' = NULL /\ storedUser' = "" /\ screen' = "Login"
             /\ UNCHANGED <<db, storedDb>> ]_vars

C7_Witness ==
  /\ last.op = "logout"
  /\ user = NULL /\ storedUser = ""
  /\ IsPacked(db.orders, "ORDER001")
  /\ storedDb = JSONStringify(db)

\* C8: a detection delivered while the scanner is stopped runs no handler:
\* it changes nothing and raises no alert
C8_StaleDetectionDiscarded ==
  [][ (dispatch # << >> /\ ~quaggaActive)
        => /\ UNCHANGED <<screen, currentOrder, scannedParts, db, storedDb, user,
                          storedUser, quaggaActive, handlers, markDisabled>>
           /\ last'.alerts = << >> ]_vars

C8_Witness ==
  /\ last.op = "order"
  /\ last.arg = "ORDER001"
  /\ dispatch = << >>
  /\ screen = "Home"
  /\ ~quaggaActive

\* ------------------------------------------------- properties of the import
\* the column an import reads an id from: the one found by name, else the
\* first (order) or second (part) column
OrderColumn(header) ==
  IF FindKeyIdx(header, OrderPatterns) # 0 THEN FindKeyIdx(header, OrderPatterns) ELSE 1
PartColumn(header) ==
  IF FindKeyIdx(header, PartPatterns) # 0 THEN FindKeyIdx(header, PartPatterns) ELSE 2

OrderCell(row) == Trim(RowGet(row, OrderColumn(csvHeader)))
PartCell(row)  == Trim(RowGet(row, PartColumn(csvHeader)))
CompleteRow(row) == OrderCell(row) # "" /\ PartCell(row) # ""

\* the part ids of the rows of one order id, in row order
PartsOfOrder(rows, id) ==
  LET mine == SelectSeq(rows, LAMBDA r : OrderCell(r) = id)
  IN [i \in 1..Len(mine) |-> PartCell(mine[i])]

ImportRan == last.op = "importComplete"

\* the database holds one Pending, unstamped order per distinct order id
\* of the file, with the part ids of that id's rows in row order
GroupedByOrderId ==
  LET ids == {OrderCell(csvRows[i]) : i \in 1..Len(csvRows)} IN
  /\ Len(db.orders) = Cardinality(ids)
  /\ \A id \in ids :
       \E i \in 1..Len(db.orders) :
         db.orders[i] = NewOrder(id, PartsOfOrder(csvRows, id))

\* C9: after the import of a file all of whose rows have an order id and a
\* part id, the database holds one Pending, unstamped order per distinct
\* order id, with the part ids of that id's rows in row order
C9_OneOrderPerDistinctId ==
  (ImportRan /\ \A i \in 1..Len(csvRows) : CompleteRow(csvRows[i]))
    => GroupedByOrderId

\* the grouping does hold for the files none of whose order ids is the name
\* of a property that ordersMap inherits
GroupedUnlessInheritedKey ==
  (/\ ImportRan
   /\ \A i \in 1..Len(csvRows) :
        CompleteRow(csvRows[i]) /\ ~InheritedKey(OrderCell(csvRows[i])))
    => GroupedByOrderId

\* C10: after an import that ran to its end, the database holds the orders
\* the same file gives once its rows with an empty order id or part id are
\* taken out
C10_IncompleteRowsSkipped ==
  (ImportRan /\ ~Normalize(csvHeader, csvRows).threw)
    => db.orders = Normalize(csvHeader, SelectSeq(csvRows, CompleteRow)).orders

\* ------------------------------------------------ properties of persistence
\* C11: after init the database is the one the stored entry parses to, and
\* the built-in sample when there was no entry or the entry does not parse;
\* no alert is raised
C11_LoadFallsBackToSample ==
  last.op = "init"
    => /\ \/ db = SampleDb
          \/ JSONParse(storedDb).ok /\ db = JSONParse(storedDb).val
       /\ last.alerts = << >>

\* C12: whenever the database is saved, the stored text parses to the very
\* database that was saved, and a page load on a stored text that parses
\* puts that database, order by order and field by field, back in memory
C12_SaveThenLoadRoundTrip ==
  [][ /\ storedDb' # storedDb => JSONParse(storedDb') = [ok |-> TRUE, val |-> db']
      /\ (Ran("init") /\ JSONParse(storedDb).ok)
           => (db' = JSONParse(storedDb).val /\ storedDb' = storedDb) ]_vars

C12_Witness ==
  /\ last.op = "init"
  /\ Len(db.orders) = 2
  /\ IsPacked(db.orders, "ORDER001")
  /\ db.orders[1].packedBy = "Dana"
  /\ db.orders[1].packedAt \in Timestamps
  /\ storedDb = JSONStringify(db)

\* ------------------------------------------- the order of the imported orders
\* the order id the import reads from a row, and whether it takes the row
ImportedId(row) ==
  RowOrderId(row, FindKeyIdx(csvHeader, OrderPatterns), FindKeyIdx(csvHeader, PartPatterns))
ImportedRow(row) ==
  /\ ImportedId(row) # ""
  /\ RowPartUid(row, FindKeyIdx(csvHeader, OrderPatterns),
                FindKeyIdx(csvHeader, PartPatterns)) # ""

\* row i is the first row the import takes for its order id
FirstOfItsId(i) ==
  /\ ImportedRow(csvRows[i])
  /\ \A k \in 1..(i - 1) :
       ~(ImportedRow(csvRows[k]) /\ ImportedId(csvRows[k]) = ImportedId(csvRows[i]))

\* the orders of the database stand in the order of the first rows of
\* their ids
FirstSeenOrder ==
  \A i, j \in 1..Len(csvRows) :
    (i < j /\ FirstOfItsId(i) /\ FirstOfItsId(j))
      => /\ FindOrder(db.orders, ImportedId(csvRows[i])) # 0
         /\ FindOrder(db.orders, ImportedId(csvRows[i]))
              < FindOrder(db.orders, ImportedId(csvRows[j]))

\* C13: after an import that ran to its end, order X stands before order Y
\* in the database whenever the first row taken for X precedes the first
\* row taken for Y, whatever the form of the ids
C13_FirstSeenOrderKept ==
  (ImportRan /\ ~Normalize(csvHeader, csvRows).threw) => FirstSeenOrder

\* the first-seen order is kept by the files none of whose order ids is an
\* array index
FirstSeenUnlessArrayIndex ==
  (/\ ImportRan /\ ~Normalize(csvHeader, csvRows).threw
   /\ \A i \in 1..Len(csvRows) : ArrayIndex(ImportedId(csvRows[i])) < 0)
    => FirstSeenOrder

\* ------------------------------------------------ properties of the scanning
\* C14: on the home screen and on the order scan screen there is no current
\* order and no scanned part
C14_ScanProgressEmptyOutsideAttempt ==
  screen \in {"Home", "OrderScan"}
    => (currentOrder.kind = "none" /\ scannedParts = << >>)

\* C15: no handler calls startScanner while the scanner started before is
\* still active
C15_NoStartWhileActive == ~last.whileActive

\* the callback given to startScanner is called in this step
CallbackInvoked == (Ran("order") \/ Ran("part")) /\ quaggaActive /\ Arg # ""

\* C16: the callback a detection invokes is the one of the latest
\* startScanner call; as every invocation deactivates the scanner and only a
\* startScanner call reactivates it, no callback is then invoked twice
C16_OnlyLatestCallbackInvoked ==
  [][ CallbackInvoked => Head(dispatch) = Len(handlers) ]_vars

\* C17: every Packed order of the database has packedAt and packedBy set,
\* every Pending order has neither
C17_PackedIffStamped ==
  \A i \in 1..Len(db.orders) :
    /\ db.orders[i].status = "Packed"
         => (db.orders[i].packedAt # NULL /\ db.orders[i].packedBy # NULL)
    /\ db.orders[i].status = "Pending"
         => (db.orders[i].packedAt = NULL /\ db.orders[i].packedBy = NULL)

\* C18: a current order is an element of state.db.orders
C18_CurrentOrderInDatabase ==
  currentOrder.kind # "none"
    => (currentOrder.kind = "db" /\ currentOrder.idx \in 1..Len(db.orders))

\* handleOrderDetected / handlePartDetected runs in this step
OrderLookupRuns ==
  \/ Ran("manualOrder") /\ Trim(Arg) # ""
  \/ Ran("order") /\ quaggaActive /\ Arg # ""
PartHandlerRuns ==
  \/ Ran("manualPart") /\ Trim(Arg) # ""
  \/ Ran("part") /\ quaggaActive /\ Arg # ""

\* C19: a code is handled as a part code, a part is added to the scanned
\* parts and the summary is entered only from the part scan screen; a code is
\* looked up as an order only from the order scan screen
C19_CodesReadByCurrentScreen ==
  [][ /\ PartHandlerRuns => screen = "PartScan"
      /\ Len(scannedParts') > Len(scannedParts) => screen = "PartScan"
      /\ (screen' = "Summary" /\ screen # "Summary") => screen = "PartScan"
      /\ OrderLookupRuns => screen = "OrderScan" ]_vars

\* C20: with a camera, a detection handled on the part scan screen that
\* leaves the part scan screen up leaves the scanner active
C20_ScannerActiveAfterPartDetection ==
  [][ (/\ Ran("part") /\ quaggaActive /\ Trim(Arg) # ""
       /\ cameraAvail /\ screen = "PartScan" /\ screen' = "PartScan")
        => quaggaActive' ]_vars

====
